---------------------------- MODULE Spec2Model ----------------------------
(***************************************************************************)
(* The state machine replica (SMR) of src/smr/state_machine.rs.            *)
(*                                                                         *)
(* The replica state is (height, round, step, block_hash, lock); process() *)
(* takes one SMRTrigger, mutates the state and enqueues events on the two  *)
(* unbounded senders self.event.0 (driver) and self.event.1 (timer).       *)
(*                                                                         *)
(* A handler is an operator from the state before the call to an outcome   *)
(* [s |-> state at the point of return, res |-> value returned].  The      *)
(* statements of a handler are applied in source order, so that an early   *)
(* return (the ? after send_event, a panic) leaves the mutations made      *)
(* before it.                                                              *)
(*                                                                         *)
(* Rounds are u64.  U64_MAX stands for u64::max_value() scaled to the      *)
(* integer range of the model checker: it is the largest round a trigger   *)
(* can carry, and self.round + 1 overflows there as it does at 2^64 - 1: a *)
(* build with overflow checks panics, a build without them wraps to 0.     *)
(*                                                                         *)
(* The caller of process() is modelled by pc: process() runs on a trigger  *)
(* from entry to return ("idle" -> "returned"), then the caller takes the  *)
(* result ("returned" -> "idle").                                          *)
(***************************************************************************)
EXTENDS Integers, Sequences, FiniteSets, TLC

MaxRound == 1
MaxHeight == 1
MaxVotes == 2
MaxCommits == 2

U64_MAX == 1073741823

INIT_HEIGHT == 0
INIT_ROUND == 0

None == << >>
Some(x) == << x >>

EmptyHash == << >>
Hashes == { EmptyHash, << 170 >>, << 187 >> }
is_empty(hash) == Len(hash) = 0

Heights == 0 .. MaxHeight
Rounds == (0 .. MaxRound) \cup { U64_MAX }

Steps == { "Propose", "Prevote", "Precommit", "Commit" }
StepOrd(st) ==
    CASE st = "Propose" -> 0
      [] st = "Prevote" -> 1
      [] st = "Precommit" -> 2
      [] st = "Commit" -> 3

Lock(r, h) == [ round |-> r, hash |-> h ]

(* SMREvent *)
NewRoundInfo(h, r, lr, lp, ni, nc, fw) ==
    [ event |-> "NewRoundInfo", height |-> h, round |-> r, lock_round |-> lr,
      lock_proposal |-> lp, new_interval |-> ni, new_config |-> nc,
      from_where |-> fw ]
PrevoteVote(h, r, bh, lr) ==
    [ event |-> "PrevoteVote", height |-> h, round |-> r, block_hash |-> bh,
      lock_round |-> lr ]
PrecommitVote(h, r, bh, lr) ==
    [ event |-> "PrecommitVote", height |-> h, round |-> r, block_hash |-> bh,
      lock_round |-> lr ]
Commit(h) == [ event |-> "Commit", hash |-> h ]

FromWhere(qc, r) == [ qc |-> qc, round |-> r ]

(* ConsensusResult<()> as returned by process(), and a panic of the call *)
Ok == "Ok"
ErrRichStatus == "Other(Rich status source error)"
ErrDelayed == "Other(Delayed status)"
ErrEmptyProposal == "ProposalErr(Empty proposal)"
ErrFork == "CorrectnessErr(Fork)"
ErrThrowEvent == "ThrowEventErr"
Panic == "Panic"

Ret(s, r) == [ s |-> s, res |-> r ]

(* SMRTrigger envelopes.  A handler reads only the fields process() passes *)
(* to it, so the fields no handler of the trigger type reads (lock_round   *)
(* outside a State proposal, the envelope of a NewHeight) are held at the  *)
(* values test_smr gives them.                                             *)
SMRStatus == [ height : Heights, new_interval : { None, Some(3000) },
               new_config : { None } ]
Sources == { "State", "Timer" }
OptRounds == { None } \cup { Some(r) : r \in Rounds }

Trigger(tt, src, h, lr, r, ht) ==
    [ trigger_type |-> tt, source |-> src, hash |-> h, lock_round |-> lr,
      round |-> r, height |-> ht ]

Triggers ==
    { Trigger([ tag |-> "NewHeight", status |-> st ], src, EmptyHash, None,
              INIT_ROUND, INIT_HEIGHT) : st \in SMRStatus, src \in Sources }
    \cup
    { Trigger([ tag |-> "Proposal" ], "State", x[1], x[2], x[3], x[4]) :
          x \in Hashes \X OptRounds \X Rounds \X Heights }
    \cup
    { Trigger([ tag |-> "Proposal" ], "Timer", x[1], None, x[2], x[3]) :
          x \in Hashes \X Rounds \X Heights }
    \cup
    { Trigger([ tag |-> x[1] ], x[2], x[3], None, x[4], x[5]) :
          x \in { "PrevoteQC", "PrecommitQC" } \X Sources \X Hashes
                \X Rounds \X Heights }
    \cup
    { Trigger([ tag |-> "ContinueRound" ], x[1], EmptyHash, None, x[2], x[3]) :
          x \in Sources \X Rounds \X Heights }

NoMsg == Trigger([ tag |-> "None" ], "None", EmptyHash, None, INIT_ROUND,
                 INIT_HEIGHT)

VARIABLES
    height, round, step, block_hash, lock,   \* StateMachine fields
    rx_state, rx_timer,      \* the receiver of event.0 / event.1 is alive
    sent_state, sent_timer,  \* events enqueued on event.0 / event.1 by the last call
    msg, res,                \* the trigger of the call and what process() returned
    pc,                      \* position of the caller: "idle", "returned"
    votes,                   \* history: the PrevoteVote and PrecommitVote events
                             \* enqueued on event.0, in order (kept by SpecVotes)
    commits                  \* history: hash and height of the Commit events
                             \* enqueued on event.0, in order (kept by SpecCommits)

vars == << height, round, step, block_hash, lock, rx_state, rx_timer,
           sent_state, sent_timer, msg, res, pc, votes, commits >>

core == << height, round, step, block_hash, lock >>

-----------------------------------------------------------------------------
(* self.round + 1 in a build without overflow checks *)
Add1(x) == (x + 1) % (U64_MAX + 1)

(* send_event() enqueueing on the timer stream first *)
send_event_timer_first(s, event) ==
    IF ~ s.rx_timer
    THEN Ret(s, ErrThrowEvent)
    ELSE LET s1 == [ s EXCEPT !.sent_timer = Append(@, event) ]
         IN  IF ~ s.rx_state
             THEN Ret(s1, ErrThrowEvent)
             ELSE Ret([ s1 EXCEPT !.sent_state = Append(@, event) ], Ok)

send_event(s, event) ==
    IF ~ s.rx_state
    THEN Ret(s, ErrThrowEvent)
    ELSE LET s1 == [ s EXCEPT !.sent_state = Append(@, event) ]
         IN  IF ~ s.rx_timer
             THEN Ret(s1, ErrThrowEvent)
             ELSE Ret([ s1 EXCEPT !.sent_timer = Append(@, event) ], Ok)

goto_step(s, st) == [ s EXCEPT !.step = st ]

goto_new_height(s, h) ==
    [ s EXCEPT !.height = h, !.round = INIT_ROUND, !.block_hash = EmptyHash,
               !.lock = None ]

(* goto_next_round() that drops the lock *)
goto_next_round_unlock(s) ==
    goto_step([ s EXCEPT !.round = Add1(@), !.lock = None ], "Propose")

goto_next_round(s) ==
    goto_step([ s EXCEPT !.round = Add1(@) ], "Propose")

remove_polc(s) == [ s EXCEPT !.lock = None ]

set_proposal(s, proposal_hash) == [ s EXCEPT !.block_hash = proposal_hash ]

(* update_polc() that leaves block_hash alone *)
update_polc_keep_proposal(s, hash, r) ==
    IF is_empty(hash)
    THEN remove_polc(s)
    ELSE [ s EXCEPT !.lock = Some(Lock(r, hash)) ]

update_polc(s, hash, r) ==
    LET s1 == set_proposal(s, hash)
    IN  IF is_empty(hash)
        THEN remove_polc(s1)
        ELSE [ s1 EXCEPT !.lock = Some(Lock(r, hash)) ]

(* every check of the body is commented out *)
check(s) == Ok

(* self.lock.clone().map_or_else(|| (None, None), ...) *)
lock_round_of(s) == IF s.lock = None THEN None ELSE Some(s.lock[1].round)
lock_proposal_of(s) == IF s.lock = None THEN None ELSE Some(s.lock[1].hash)

(* send NewRoundInfo{round: self.round + 1, ..} and goto_next_round(), with *)
(* self.round already assigned.  s.overflow_checks is what the build does  *)
(* when self.round + 1 overflows: panic, or wrap.                          *)
new_round(s, fw) ==
    IF s.round = U64_MAX /\ s.overflow_checks
    THEN Ret(s, Panic)
    ELSE LET e == send_event(s, NewRoundInfo(s.height, Add1(s.round),
                                 lock_round_of(s), lock_proposal_of(s),
                                 None, None, fw))
         IN  IF e.res # Ok THEN e ELSE Ret(goto_next_round(e.s), Ok)

(* handle_new_height() testing the height before the source *)
handle_new_height_delay_first(s, status, source) ==
    IF status.height <= s.height
    THEN Ret(s, ErrDelayed)
    ELSE IF source # "State"
    THEN Ret(s, ErrRichStatus)
    ELSE LET s1 == goto_new_height(s, status.height)
             e == send_event(s1, NewRoundInfo(s1.height, INIT_ROUND, None, None,
                                   status.new_interval, status.new_config,
                                   FromWhere("PrecommitQC", U64_MAX)))
         IN  IF e.res # Ok THEN e ELSE Ret(goto_step(e.s, "Propose"), Ok)

(* handle_new_height() without the "Delayed status" test *)
handle_new_height_no_delay(s, status, source) ==
    IF source # "State"
    THEN Ret(s, ErrRichStatus)
    ELSE LET s1 == goto_new_height(s, status.height)
             e == send_event(s1, NewRoundInfo(s1.height, INIT_ROUND, None, None,
                                   status.new_interval, status.new_config,
                                   FromWhere("PrecommitQC", U64_MAX)))
         IN  IF e.res # Ok THEN e ELSE Ret(goto_step(e.s, "Propose"), Ok)

handle_new_height(s, status, source) ==
    IF source # "State"
    THEN Ret(s, ErrRichStatus)
    ELSE IF status.height <= s.height
    THEN Ret(s, ErrDelayed)
    ELSE LET s1 == goto_new_height(s, status.height)
             e == send_event(s1, NewRoundInfo(s1.height, INIT_ROUND, None, None,
                                   status.new_interval, status.new_config,
                                   FromWhere("PrecommitQC", U64_MAX)))
         IN  IF e.res # Ok THEN e ELSE Ret(goto_step(e.s, "Propose"), Ok)

(* the block with the fork test not comparing the hashes *)
proposal_polc_fork_any(s, proposal_hash, lock_round) ==
    IF lock_round # None
    THEN IF s.lock # None
         THEN IF lock_round[1] > s.lock[1].round
              THEN Ret(set_proposal(remove_polc(s), proposal_hash), Ok)
              ELSE IF lock_round[1] = s.lock[1].round
              THEN Ret(s, ErrFork)
              ELSE Ret(s, Ok)
         ELSE Ret(set_proposal(s, proposal_hash), Ok)
    ELSE IF s.lock = None
    THEN Ret(set_proposal(s, proposal_hash), Ok)
    ELSE Ret(s, Ok)

(* the block adopting an unlocked proposal over its own lock *)
proposal_polc_adopt(s, proposal_hash, lock_round) ==
    IF lock_round # None
    THEN IF s.lock # None
         THEN IF lock_round[1] > s.lock[1].round
              THEN Ret(set_proposal(remove_polc(s), proposal_hash), Ok)
              ELSE IF lock_round[1] = s.lock[1].round
                      /\ proposal_hash # s.block_hash
              THEN Ret(s, ErrFork)
              ELSE Ret(s, Ok)
         ELSE Ret(set_proposal(s, proposal_hash), Ok)
    ELSE Ret(set_proposal(s, proposal_hash), Ok)

(* the block locking on the proposal it adopts *)
proposal_polc_relock(s, proposal_hash, lock_round) ==
    IF lock_round # None
    THEN IF s.lock # None
         THEN IF lock_round[1] > s.lock[1].round
              THEN Ret(update_polc(s, proposal_hash, lock_round[1]), Ok)
              ELSE IF lock_round[1] = s.lock[1].round
                      /\ proposal_hash # s.block_hash
              THEN Ret(s, ErrFork)
              ELSE Ret(s, Ok)
         ELSE Ret(set_proposal(s, proposal_hash), Ok)
    ELSE IF s.lock = None
    THEN Ret(set_proposal(s, proposal_hash), Ok)
    ELSE Ret(s, Ok)

(* the "update PoLC" block of handle_proposal *)
proposal_polc(s, proposal_hash, lock_round) ==
    IF lock_round # None
    THEN IF s.lock # None
         THEN IF lock_round[1] > s.lock[1].round
              THEN Ret(set_proposal(remove_polc(s), proposal_hash), Ok)
              ELSE IF lock_round[1] = s.lock[1].round
                      /\ proposal_hash # s.block_hash
              THEN Ret(s, ErrFork)
              ELSE Ret(s, Ok)
         ELSE Ret(set_proposal(s, proposal_hash), Ok)
    ELSE IF s.lock = None
    THEN Ret(set_proposal(s, proposal_hash), Ok)
    ELSE Ret(s, Ok)

handle_proposal(s, proposal_hash, r, lock_round, source, h) ==
    IF s.height # h \/ s.round # r
    THEN Ret(s, Ok)
    ELSE IF StepOrd(s.step) > StepOrd("Propose")
    THEN Ret(s, Ok)
    ELSE IF source = "Timer"
    THEN LET hash == IF s.lock # None THEN s.lock[1].hash ELSE EmptyHash
             e == send_event(s, PrevoteVote(s.height, s.round, hash,
                                             lock_round_of(s)))
         IN  IF e.res # Ok THEN e ELSE Ret(goto_step(e.s, "Prevote"), Ok)
    ELSE IF is_empty(proposal_hash)
    THEN Ret(s, ErrEmptyProposal)
    ELSE IF check(s) # Ok
    THEN Ret(s, check(s))
    ELSE LET p == proposal_polc(s, proposal_hash, lock_round)
         IN  IF p.res # Ok
             THEN p
             ELSE LET e == send_event(p.s, PrevoteVote(p.s.height, p.s.round,
                                          p.s.block_hash, lock_round_of(p.s)))
                  IN  IF e.res # Ok
                      THEN e
                      ELSE Ret(goto_step(e.s, "Prevote"), Ok)

(* the Timer branch of handle_prevote *)
(* the prevote timeout voting for block_hash instead of the empty hash *)
prevote_timeout_vote_hash(s, prevote_round) ==
    IF prevote_round # s.round
    THEN Ret(s, Ok)
    ELSE LET s1 == IF s.lock # None THEN s
                   ELSE [ s EXCEPT !.block_hash = EmptyHash ]
             e == send_event(s1, PrecommitVote(s1.height, s1.round,
                                                s1.block_hash, lock_round_of(s)))
         IN  IF e.res # Ok THEN e ELSE Ret(goto_step(e.s, "Precommit"), Ok)

prevote_timeout(s, prevote_round) ==
    IF prevote_round # s.round
    THEN Ret(s, Ok)
    ELSE LET s1 == IF s.lock # None THEN s
                   ELSE [ s EXCEPT !.block_hash = EmptyHash ]
             e == send_event(s1, PrecommitVote(s1.height, s1.round, EmptyHash,
                                                lock_round_of(s)))
         IN  IF e.res # Ok THEN e ELSE Ret(goto_step(e.s, "Precommit"), Ok)

(* the round jump of handle_prevote: if prevote_round > self.round { .. } *)
prevote_jump(s, prevote_round) ==
    IF prevote_round > s.round
    THEN new_round([ s EXCEPT !.round = prevote_round ],
                   FromWhere("PrevoteQC", prevote_round))
    ELSE Ret(s, Ok)

handle_prevote(s, prevote_hash, prevote_round, source, h) ==
    IF s.height # h
    THEN Ret(s, Ok)
    ELSE IF prevote_round = s.round /\ StepOrd(s.step) > StepOrd("Prevote")
    THEN Ret(s, Ok)
    ELSE IF source = "Timer"
    THEN prevote_timeout(s, prevote_round)
    ELSE IF check(s) # Ok
    THEN Ret(s, check(s))
    ELSE IF prevote_round < s.round
    THEN Ret(s, Ok)
    ELSE LET j == prevote_jump(update_polc(s, prevote_hash, prevote_round),
                               prevote_round)
         IN  IF j.res # Ok
             THEN j
             ELSE LET e == send_event(j.s, PrecommitVote(j.s.height, j.s.round,
                                          j.s.block_hash, lock_round_of(j.s)))
                  IN  IF e.res # Ok
                      THEN e
                      ELSE Ret(goto_step(e.s, "Precommit"), Ok)

(* handle_precommit() without the height test *)
handle_precommit_any_height(s, precommit_hash, precommit_round, source, h) ==
    IF s.step = "Commit"
    THEN Ret(s, Ok)
    ELSE IF is_empty(precommit_hash)
    THEN IF precommit_round < s.round
         THEN Ret(s, Ok)
         ELSE new_round([ s EXCEPT !.round = precommit_round ],
                        FromWhere("PrecommitQC", precommit_round))
    ELSE LET e == send_event(s, Commit(precommit_hash))
         IN  IF e.res # Ok THEN e ELSE Ret(goto_step(e.s, "Commit"), Ok)

(* handle_precommit() committing its own block_hash *)
handle_precommit_own_hash(s, precommit_hash, precommit_round, source, h) ==
    IF s.height # h
    THEN Ret(s, Ok)
    ELSE IF s.step = "Commit"
    THEN Ret(s, Ok)
    ELSE IF is_empty(precommit_hash)
    THEN IF precommit_round < s.round
         THEN Ret(s, Ok)
         ELSE new_round([ s EXCEPT !.round = precommit_round ],
                        FromWhere("PrecommitQC", precommit_round))
    ELSE LET e == send_event(s, Commit(s.block_hash))
         IN  IF e.res # Ok THEN e ELSE Ret(goto_step(e.s, "Commit"), Ok)

handle_precommit(s, precommit_hash, precommit_round, source, h) ==
    IF s.height # h
    THEN Ret(s, Ok)
    ELSE IF s.step = "Commit"
    THEN Ret(s, Ok)
    ELSE IF is_empty(precommit_hash)
    THEN IF precommit_round < s.round
         THEN Ret(s, Ok)
         ELSE new_round([ s EXCEPT !.round = precommit_round ],
                        FromWhere("PrecommitQC", precommit_round))
    ELSE IF check(s) # Ok
    THEN Ret(s, check(s))
    ELSE LET e == send_event(s, Commit(precommit_hash))
         IN  IF e.res # Ok THEN e ELSE Ret(goto_step(e.s, "Commit"), Ok)

handle_continue_round(s, h, r) ==
    IF h # s.height \/ r <= s.round
    THEN Ret(s, Ok)
    ELSE new_round([ s EXCEPT !.round = r - 1 ], FromWhere("ChokeQC", r - 1))

process(s, m) ==
    CASE m.trigger_type.tag = "NewHeight" ->
             handle_new_height(s, m.trigger_type.status, m.source)
      [] m.trigger_type.tag = "Proposal" ->
             handle_proposal(s, m.hash, m.round, m.lock_round, m.source, m.height)
      [] m.trigger_type.tag = "PrevoteQC" ->
             handle_prevote(s, m.hash, m.round, m.source, m.height)
      [] m.trigger_type.tag = "PrecommitQC" ->
             handle_precommit(s, m.hash, m.round, m.source, m.height)
      [] m.trigger_type.tag = "ContinueRound" ->
             IF m.source # "State"
             THEN Ret(s, Panic)
             ELSE handle_continue_round(s, m.height, m.round)

-----------------------------------------------------------------------------
(* StateMachine::new() *)
Init ==
    /\ height = INIT_HEIGHT
    /\ round = INIT_ROUND
    /\ step = "Propose"
    /\ block_hash = EmptyHash
    /\ lock = None
    /\ rx_state = TRUE
    /\ rx_timer = TRUE
    /\ sent_state = << >>
    /\ sent_timer = << >>
    /\ msg = NoMsg
    /\ res = "None"
    /\ pc = "idle"
    /\ votes = << >>
    /\ commits = << >>

Self(oc) ==
    [ height |-> height, round |-> round, step |-> step,
      block_hash |-> block_hash, lock |-> lock,
      rx_state |-> rx_state, rx_timer |-> rx_timer,
      sent_state |-> << >>, sent_timer |-> << >>,
      overflow_checks |-> oc ]

(* one call of process(m), from entry to return or panic, in a build with  *)
(* or without overflow checks                                              *)
Process(m) ==
    /\ pc = "idle"
    /\ pc' = "returned"
    /\ msg' = m
    /\ \E o \in { process(Self(oc), m) : oc \in BOOLEAN } :
          /\ height' = o.s.height
          /\ round' = o.s.round
          /\ step' = o.s.step
          /\ block_hash' = o.s.block_hash
          /\ lock' = o.s.lock
          /\ sent_state' = o.s.sent_state
          /\ sent_timer' = o.s.sent_timer
          /\ res' = o.res
    /\ UNCHANGED << rx_state, rx_timer, votes, commits >>

(* the caller takes the result; a panic ends the run of the replica *)
Return ==
    /\ pc = "returned"
    /\ res # Panic
    /\ pc' = "idle"
    /\ msg' = NoMsg
    /\ res' = "None"
    /\ sent_state' = << >>
    /\ sent_timer' = << >>
    /\ UNCHANGED << core, rx_state, rx_timer, votes, commits >>

(* the owner of the Event returned by new() drops it *)
DropStateEvent ==
    /\ pc = "idle"
    /\ rx_state
    /\ rx_state' = FALSE
    /\ UNCHANGED << core, rx_timer, sent_state, sent_timer, msg, res, pc,
                    votes, commits >>

DropTimerEvent ==
    /\ pc = "idle"
    /\ rx_timer
    /\ rx_timer' = FALSE
    /\ UNCHANGED << core, rx_state, sent_state, sent_timer, msg, res, pc,
                    votes, commits >>

Next ==
    \/ \E m \in Triggers : Process(m)
    \/ Return
    \/ DropStateEvent
    \/ DropTimerEvent

Spec == Init /\ [][Next]_vars

IsVote(e) == e.event \in { "PrevoteVote", "PrecommitVote" }

(* one call of process(m) and the caller taking its result, in one step,   *)
(* with the votes the call enqueued on event.0 recorded; taken as long as  *)
(* fewer than MaxVotes are on record                                       *)
ProcessVotes(m) ==
    /\ pc = "idle"
    /\ Len(votes) < MaxVotes
    /\ \E o \in { process(Self(oc), m) : oc \in BOOLEAN } :
          /\ height' = o.s.height
          /\ round' = o.s.round
          /\ step' = o.s.step
          /\ block_hash' = o.s.block_hash
          /\ lock' = o.s.lock
          /\ votes' = votes \o SelectSeq(o.s.sent_state, IsVote)
          /\ IF o.res = Panic
             THEN /\ pc' = "returned"
                  /\ msg' = m
                  /\ res' = Panic
                  /\ sent_state' = o.s.sent_state
                  /\ sent_timer' = o.s.sent_timer
             ELSE /\ pc' = "idle"
                  /\ msg' = NoMsg
                  /\ res' = "None"
                  /\ sent_state' = << >>
                  /\ sent_timer' = << >>
    /\ UNCHANGED << rx_state, rx_timer, commits >>

NextVotes ==
    \/ \E m \in Triggers : ProcessVotes(m)
    \/ DropStateEvent
    \/ DropTimerEvent

SpecVotes == Init /\ [][NextVotes]_vars

(* the Commit events of a sequence, each with the height it was enqueued at *)
CommitsAt(q, h) ==
    LET c == SelectSeq(q, LAMBDA e : e.event = "Commit")
    IN  [ i \in 1 .. Len(c) |-> [ hash |-> c[i].hash, height |-> h ] ]

(* one call of process(m) and the caller taking its result, in one step,   *)
(* with the Commit events the call enqueued on event.0 recorded; taken as  *)
(* long as fewer than MaxCommits are on record                             *)
ProcessCommits(m) ==
    /\ pc = "idle"
    /\ Len(commits) < MaxCommits
    /\ \E o \in { process(Self(oc), m) : oc \in BOOLEAN } :
          /\ height' = o.s.height
          /\ round' = o.s.round
          /\ step' = o.s.step
          /\ block_hash' = o.s.block_hash
          /\ lock' = o.s.lock
          /\ commits' = commits \o CommitsAt(o.s.sent_state, o.s.height)
          /\ IF o.res = Panic
             THEN /\ pc' = "returned"
                  /\ msg' = m
                  /\ res' = Panic
                  /\ sent_state' = o.s.sent_state
                  /\ sent_timer' = o.s.sent_timer
             ELSE /\ pc' = "idle"
                  /\ msg' = NoMsg
                  /\ res' = "None"
                  /\ sent_state' = << >>
                  /\ sent_timer' = << >>
    /\ UNCHANGED << rx_state, rx_timer, votes >>

NextCommits ==
    \/ \E m \in Triggers : ProcessCommits(m)
    \/ DropStateEvent
    \/ DropTimerEvent

SpecCommits == Init /\ [][NextCommits]_vars

StateRounds == Rounds \cup { MaxRound + 1, U64_MAX - 1 }

TypeOK ==
    /\ height \in Heights
    /\ round \in StateRounds
    /\ step \in Steps
    /\ block_hash \in Hashes
    /\ lock \in { None } \cup { Some(Lock(r, h)) : r \in Rounds, h \in Hashes }
    /\ msg \in Triggers \cup { NoMsg }
    /\ pc \in { "idle", "returned" }

-----------------------------------------------------------------------------
(* A step in which process() handles the trigger msg': the unprimed state  *)
(* is the state before the call, the primed one the state at its return.   *)
Handled == pc = "idle" /\ pc' = "returned"

Tag(m) == m.trigger_type.tag

(* C1: in every reachable state, a lock that is present has a non-empty    *)
(* hash and that hash equals block_hash.                                   *)
C1_LockMatchesBlockHash ==
    lock # None => ( ~ is_empty(lock[1].hash) /\ lock[1].hash = block_hash )

(* a State PrevoteQC of a higher round installed the lock and jumped the  *)
(* round                                                                   *)
C1_Witness ==
    /\ pc = "returned" /\ res = Ok /\ lock # None
    /\ Tag(msg) = "PrevoteQC" /\ msg.source = "State"
    /\ lock[1].round = msg.round /\ round = msg.round + 1

(* C2: in every reachable state, a lock that is present has                *)
(* lock.round <= round.                                                    *)
C2_LockRoundAtMostRound ==
    lock # None => lock[1].round <= round

(* C3: the height never decreases; it changes only in a State-sourced      *)
(* NewHeight whose status.height is greater than the current height, and   *)
(* then becomes status.height; Proposal, PrevoteQC, PrecommitQC and        *)
(* ContinueRound never change it.                                          *)
C3_HeightOnlyByNewHeight ==
    [][ /\ height' >= height
        /\ height' # height =>
              /\ Handled
              /\ Tag(msg') = "NewHeight"
              /\ msg'.source = "State"
              /\ msg'.trigger_type.status.height > height
              /\ height' = msg'.trigger_type.status.height
        /\ Tag(msg') \in { "Proposal", "PrevoteQC", "PrecommitQC",
                           "ContinueRound" } => height' = height ]_vars

C3_Witness ==
    /\ pc = "returned" /\ res = Ok /\ Tag(msg) = "NewHeight"
    /\ height = msg.trigger_type.status.height /\ height > INIT_HEIGHT

(* C4: in a step that leaves the height unchanged the round does not       *)
(* decrease; the round becomes 0 exactly when the height changes.          *)
C4_RoundMonotoneInHeight ==
    [][ /\ height' = height => round' >= round
        /\ height' # height => round' = 0
        /\ (round' = 0 /\ round # 0) => height' # height ]_vars

(* C5: a trigger that leaves height and round unchanged does not move the  *)
(* step backward in Propose < Prevote < Precommit < Commit.                *)
C5_StepMonotoneInRound ==
    [][ (height' = height /\ round' = round)
            => StepOrd(step') >= StepOrd(step) ]_vars

(* C6: when a successfully processed trigger changes the round or the      *)
(* height, the step at the return of process() is Propose.                 *)
C6_ProposeAfterAdvance ==
    [][ (Handled /\ res' = Ok /\ (round' # round \/ height' # height))
            => step' = "Propose" ]_vars

(* C7 as stated: every trigger that increases the round at an unchanged    *)
(* height leaves a lock that was present unchanged, and after every        *)
(* accepted NewHeight the lock is absent.                                  *)
NewHeightAccepted ==
    /\ Handled /\ Tag(msg') = "NewHeight"
    /\ res' \notin { ErrRichStatus, ErrDelayed }

C7_LockKeptByEveryRoundChange ==
    [][ /\ (Handled /\ height' = height /\ round' > round /\ lock # None)
              => lock' = lock
        /\ NewHeightAccepted => lock' = None ]_vars

(* C7 amended: every trigger other than a State-sourced PrevoteQC that     *)
(* increases the round at an unchanged height leaves a lock that was       *)
(* present unchanged; a State-sourced PrevoteQC that increases the round   *)
(* replaces the lock by (prevote_round, hash), or clears it when the hash  *)
(* is empty; after every accepted NewHeight the lock is absent.            *)
C7_LockKeptUnlessPrevoteQC ==
    [][ /\ (Handled /\ height' = height /\ round' > round /\ lock # None)
              => IF Tag(msg') = "PrevoteQC" /\ msg'.source = "State"
                 THEN lock' = IF is_empty(msg'.hash) THEN None
                              ELSE Some(Lock(msg'.round, msg'.hash))
                 ELSE lock' = lock
        /\ NewHeightAccepted => lock' = None ]_vars

(* a nil PrecommitQC moved a locked replica to the next round *)
C7_Witness ==
    /\ pc = "returned" /\ res = Ok /\ Tag(msg) = "PrecommitQC"
    /\ is_empty(msg.hash) /\ round = msg.round + 1 /\ step = "Propose"
    /\ lock # None /\ lock[1].round < round

(* C8: process() returns CorrectnessErr("Fork") exactly when the trigger   *)
(* is a State-sourced Proposal with non-empty hash for the current height  *)
(* and round, the step is Propose, a lock is held, the trigger's           *)
(* lock_round equals lock.round and the proposal hash differs from         *)
(* block_hash; the state is then unchanged and no event is emitted.        *)
ForkCase ==
    /\ Tag(msg') = "Proposal" /\ msg'.source = "State"
    /\ ~ is_empty(msg'.hash)
    /\ msg'.height = height /\ msg'.round = round
    /\ step = "Propose"
    /\ lock # None
    /\ msg'.lock_round = Some(lock[1].round)
    /\ msg'.hash # block_hash

C8_ForkExactly ==
    [][ Handled =>
          /\ res' = ErrFork <=> ForkCase
          /\ res' = ErrFork =>
                /\ UNCHANGED core
                /\ sent_state' = << >> /\ sent_timer' = << >> ]_vars

C8_Witness ==
    /\ pc = "returned" /\ res = ErrFork
    /\ lock # None /\ msg.lock_round = Some(lock[1].round)
    /\ msg.hash # block_hash /\ step = "Propose"

(* C9: an accepted State-sourced Proposal with non-empty hash (current     *)
(* height and round, step Propose) leaves (block_hash, lock) as the        *)
(* reconciliation table says, emits exactly one PrevoteVote carrying the   *)
(* height, the round, the resulting block_hash and the resulting lock's    *)
(* round, and sets the step to Prevote.                                    *)
ProposalAccepted ==
    /\ Handled /\ res' = Ok
    /\ Tag(msg') = "Proposal" /\ msg'.source = "State"
    /\ ~ is_empty(msg'.hash)
    /\ msg'.height = height /\ msg'.round = round
    /\ step = "Propose"

ReconciliationTable ==
    CASE msg'.lock_round # None /\ lock # None ->
             IF msg'.lock_round[1] > lock[1].round
             THEN lock' = None /\ block_hash' = msg'.hash
             ELSE IF msg'.lock_round[1] = lock[1].round
             THEN msg'.hash = block_hash /\ UNCHANGED << lock, block_hash >>
             ELSE UNCHANGED << lock, block_hash >>
      [] msg'.lock_round # None /\ lock = None ->
             lock' = None /\ block_hash' = msg'.hash
      [] msg'.lock_round = None /\ lock = None ->
             lock' = None /\ block_hash' = msg'.hash
      [] msg'.lock_round = None /\ lock # None ->
             UNCHANGED << lock, block_hash >>

C10_OnlyPrevoteQCLocks ==
    [][ /\ (lock' # None /\ lock' # lock) =>
              /\ Handled
              /\ Tag(msg') = "PrevoteQC" /\ msg'.source = "State"
              /\ ~ is_empty(msg'.hash)
        /\ (Handled /\ Tag(msg') = "Proposal") => (lock' = lock \/ lock' = None)
        /\ (Handled /\ msg'.source = "Timer") => lock' = lock ]_vars

(* a State PrevoteQC of the current round installed the lock *)
C10_Witness ==
    /\ pc = "returned" /\ res = Ok
    /\ Tag(msg) = "PrevoteQC" /\ msg.source = "State"
    /\ round = msg.round /\ step = "Precommit"
    /\ lock = Some(Lock(msg.round, msg.hash))


NothingSent == sent_state' = << >> /\ sent_timer' = << >>

(* C11: a Proposal, PrevoteQC or PrecommitQC from either source, or a      *)
(* State-sourced ContinueRound, whose height is not the current height     *)
(* returns Ok, leaves (height, round, step, block_hash, lock) unchanged    *)
(* and emits nothing on either stream.                                     *)
OtherHeight ==
    /\ Handled
    /\ msg'.height # height
    /\ \/ Tag(msg') \in { "Proposal", "PrevoteQC", "PrecommitQC" }
       \/ Tag(msg') = "ContinueRound" /\ msg'.source = "State"

C11_OtherHeightDropped ==
    [][ OtherHeight => (res' = Ok /\ UNCHANGED core /\ NothingSent) ]_vars

(* a nil PrecommitQC that would have moved the round was dropped for its   *)
(* height                                                                  *)
C11_Witness ==
    /\ pc = "returned" /\ res = Ok
    /\ Tag(msg) = "PrecommitQC" /\ is_empty(msg.hash)
    /\ msg.height # height /\ msg.round >= round /\ step # "Commit"
    /\ sent_state = << >>

(* C12: a Timer-sourced NewHeight returns Other("Rich status source        *)
(* error") whatever its height, a State-sourced NewHeight with             *)
(* status.height <= height returns Other("Delayed status"); in both cases  *)
(* the state is unchanged and nothing is emitted.                          *)
C12_NewHeightRejected ==
    [][ (Handled /\ Tag(msg') = "NewHeight") =>
          /\ msg'.source = "Timer" => res' = ErrRichStatus
          /\ (msg'.source = "State"
                /\ msg'.trigger_type.status.height <= height)
                => res' = ErrDelayed
          /\ res' \in { ErrRichStatus, ErrDelayed }
                => (UNCHANGED core /\ NothingSent) ]_vars

(* a Timer NewHeight for an old height was rejected for its source *)
C12_Witness ==
    /\ pc = "returned" /\ res = ErrRichStatus
    /\ Tag(msg) = "NewHeight" /\ msg.source = "Timer"
    /\ msg.trigger_type.status.height <= height


(* the triggers that pass the tests of their handler, on the state before  *)
(* the call                                                                *)
HereAndNow == msg'.height = height /\ msg'.round = round

NewHeightPasses ==
    /\ Tag(msg') = "NewHeight" /\ msg'.source = "State"
    /\ msg'.trigger_type.status.height > height

StateProposalPasses ==
    /\ Tag(msg') = "Proposal" /\ msg'.source = "State"
    /\ HereAndNow /\ step = "Propose"
    /\ ~ is_empty(msg'.hash) /\ ~ ForkCase

TimerProposalPasses ==
    /\ Tag(msg') = "Proposal" /\ msg'.source = "Timer"
    /\ HereAndNow /\ step = "Propose"

StatePrevoteQCPasses ==
    /\ Tag(msg') = "PrevoteQC" /\ msg'.source = "State"
    /\ msg'.height = height
    /\ \/ msg'.round > round
       \/ msg'.round = round /\ step \in { "Propose", "Prevote" }

TimerPrevoteQCPasses ==
    /\ Tag(msg') = "PrevoteQC" /\ msg'.source = "Timer"
    /\ HereAndNow /\ step \in { "Propose", "Prevote" }

NilPrecommitQCPasses ==
    /\ Tag(msg') = "PrecommitQC" /\ is_empty(msg'.hash)
    /\ msg'.height = height /\ step # "Commit" /\ msg'.round >= round

PrecommitQCPasses ==
    /\ Tag(msg') = "PrecommitQC" /\ ~ is_empty(msg'.hash)
    /\ msg'.height = height /\ step # "Commit"

ContinueRoundPasses ==
    /\ Tag(msg') = "ContinueRound" /\ msg'.source = "State"
    /\ msg'.height = height /\ msg'.round > round

Passes ==
    \/ NewHeightPasses \/ StateProposalPasses \/ TimerProposalPasses
    \/ StatePrevoteQCPasses \/ TimerPrevoteQCPasses
    \/ NilPrecommitQCPasses \/ PrecommitQCPasses \/ ContinueRoundPasses

Kinds(q) == [ i \in 1 .. Len(q) |-> q[i].event ]

(* C13: when no enqueue fails, an accepted NewHeight emits exactly one     *)
(* NewRoundInfo, an accepted State Proposal exactly one PrevoteVote, an    *)
(* accepted State PrevoteQC a NewRoundInfo exactly when prevote_round >    *)
(* round and then exactly one PrecommitVote, an accepted nil PrecommitQC   *)
(* exactly one NewRoundInfo, an accepted non-nil PrecommitQC exactly one   *)
(* Commit with the hash of the QC; a trigger that is dropped or rejected   *)
(* with an error emits nothing.                                            *)
C13_EmissionCount ==
    [][ (Handled /\ rx_state /\ rx_timer) =>
          /\ sent_timer' = sent_state'
          /\ res' # ErrThrowEvent
          /\ res' = Ok =>
                /\ NewHeightPasses => Kinds(sent_state') = << "NewRoundInfo" >>
                /\ StateProposalPasses => Kinds(sent_state') = << "PrevoteVote" >>
                /\ StatePrevoteQCPasses =>
                      Kinds(sent_state') =
                          IF msg'.round > round
                          THEN << "NewRoundInfo", "PrecommitVote" >>
                          ELSE << "PrecommitVote" >>
                /\ NilPrecommitQCPasses => Kinds(sent_state') = << "NewRoundInfo" >>
                /\ PrecommitQCPasses => sent_state' = << Commit(msg'.hash) >>
          /\ (res' \notin { Ok, Panic } \/ (res' = Ok /\ ~ Passes))
                => NothingSent ]_vars

(* a PrecommitQC committed a hash that is not the replica's block_hash *)
C13_Witness ==
    /\ pc = "returned" /\ res = Ok /\ rx_state /\ rx_timer
    /\ Tag(msg) = "PrecommitQC" /\ step = "Commit"
    /\ msg.hash # block_hash
    /\ sent_state = << Commit(msg.hash) >> /\ sent_timer = sent_state


IsPrefix(p, q) == Len(p) <= Len(q) /\ SubSeq(q, 1, Len(p)) = p

(* the round a handler has assigned when it reaches its first send *)
RoundAtSend ==
    CASE NewHeightPasses -> INIT_ROUND
      [] ContinueRoundPasses -> msg'.round - 1
      [] StatePrevoteQCPasses \/ NilPrecommitQCPasses -> msg'.round
      [] OTHER -> round

(* C14: the timer stream carries a prefix of the driver stream, driver     *)
(* first.  Stated on the events of each call: they are a prefix of the     *)
(* driver's events of that call and equal to them unless an enqueue        *)
(* failed; the timer stream misses an event only when its receiver is      *)
(* gone, a receiver that is gone stays gone and its stream then receives   *)
(* nothing, so the whole timer sequence stays a prefix of the whole driver *)
(* sequence.  An enqueue fails exactly when a trigger that passes its      *)
(* handler's tests meets a dropped receiver; process() then returns        *)
(* ThrowEventErr, nothing is enqueued after the failing event, and the     *)
(* state is as it was at the failing send (step not changed, round not     *)
(* incremented).                                                           *)
C14_TimerStreamIsPrefix ==
    [][ /\ rx_state' => rx_state
        /\ rx_timer' => rx_timer
        /\ Handled =>
              /\ IsPrefix(sent_timer', sent_state')
              /\ res' # ErrThrowEvent => sent_timer' = sent_state'
              /\ sent_timer' # sent_state' => ~ rx_timer
              /\ ~ rx_timer => sent_timer' = << >>
              /\ ~ rx_state => sent_state' = << >>
              /\ (Passes /\ ~ (rx_state /\ rx_timer))
                    => res' \in { ErrThrowEvent, Panic }
              /\ res' = ErrThrowEvent =>
                    /\ Passes /\ ~ (rx_state /\ rx_timer)
                    /\ Len(sent_state') = IF rx_state THEN 1 ELSE 0
                    /\ step' = step
                    /\ round' = RoundAtSend ]_vars

(* the NewRoundInfo of a round jump reached the driver only and the call   *)
(* stopped there                                                           *)
C14_Witness ==
    /\ pc = "returned" /\ res = ErrThrowEvent
    /\ Tag(msg) = "PrevoteQC" /\ msg.source = "State"
    /\ Kinds(sent_state) = << "NewRoundInfo" >> /\ sent_timer = << >>
    /\ round = msg.round /\ lock # None


(* C15: process() returns success or a ConsensusError for every trigger    *)
(* in every reachable state; no call panics.                               *)
C15_NeverPanics == res # Panic

(* C16: a State PrevoteQC of the current height with prevote_round above   *)
(* the current round, no enqueue failing, sets block_hash and lock from    *)
(* the QC, emits NewRoundInfo{prevote_round + 1, the updated lock,         *)
(* PrevoteQC(prevote_round)} and then PrecommitVote{prevote_round + 1, the *)
(* QC's hash, the updated lock's round} on each stream, and returns with   *)
(* round = prevote_round + 1 and step Precommit.                           *)
C16_RoundJumpByPrevoteQC ==
    [][ ( /\ Handled /\ rx_state /\ rx_timer
          /\ StatePrevoteQCPasses /\ msg'.round > round ) =>
          LET lk == IF is_empty(msg'.hash) THEN None
                    ELSE Some(Lock(msg'.round, msg'.hash))
              lr == IF lk = None THEN None ELSE Some(msg'.round)
              lp == IF lk = None THEN None ELSE Some(msg'.hash)
              nr == msg'.round + 1
          IN  /\ block_hash' = msg'.hash
              /\ lock' = lk
              /\ sent_state' =
                     << NewRoundInfo(height, nr, lr, lp, None, None,
                                     FromWhere("PrevoteQC", msg'.round)),
                        PrecommitVote(height, nr, msg'.hash, lr) >>
              /\ sent_timer' = sent_state'
              /\ round' = nr
              /\ step' = "Precommit" ]_vars

TimerPrevoteQCHere ==
    /\ Handled
    /\ Tag(msg') = "PrevoteQC" /\ msg'.source = "Timer"
    /\ msg'.height = height

(* what the prevote timeout does to height, round, block_hash and lock *)
TimeoutUpdate ==
    /\ height' = height /\ round' = round /\ lock' = lock
    /\ block_hash' = IF lock # None THEN block_hash ELSE EmptyHash

TimeoutVote ==
    PrecommitVote(height, round, EmptyHash, IF lock = None THEN None
                                            ELSE Some(lock[1].round))

(* C17 as stated: a Timer PrevoteQC of the current height changes nothing  *)
(* and emits nothing unless its round is the current round and the step is *)
(* Propose or Prevote; then it emits exactly one PrecommitVote for the     *)
(* empty hash with the lock's round, keeps the lock, keeps block_hash if   *)
(* locked and empties it if not, and sets the step to Precommit.           *)
C17_PrevoteTimeout ==
    [][ TimerPrevoteQCHere =>
          IF TimerPrevoteQCPasses
          THEN /\ TimeoutUpdate
               /\ sent_state' = << TimeoutVote >>
               /\ step' = "Precommit"
          ELSE core' = core /\ NothingSent ]_vars

(* C17 amended: the same, with the vote and the step change happening      *)
(* when no enqueue fails; when one fails the call returns ThrowEventErr     *)
(* with block_hash updated as above, the step unchanged and the vote on at *)
(* most the driver stream.                                                 *)
C17_PrevoteTimeoutUnlessEnqueueFails ==
    [][ TimerPrevoteQCHere =>
          IF TimerPrevoteQCPasses
          THEN /\ TimeoutUpdate
               /\ IF rx_state /\ rx_timer
                  THEN /\ res' = Ok
                       /\ sent_state' = << TimeoutVote >>
                       /\ sent_timer' = << TimeoutVote >>
                       /\ step' = "Precommit"
                  ELSE /\ res' = ErrThrowEvent
                       /\ sent_state' = IF rx_state THEN << TimeoutVote >>
                                        ELSE << >>
                       /\ sent_timer' = << >>
                       /\ step' = step
          ELSE res' = Ok /\ core' = core /\ NothingSent ]_vars

(* a locked replica timed out in Prevote: it voted for the empty hash and  *)
(* kept its lock and block_hash                                            *)
C17_Witness ==
    /\ pc = "returned" /\ res = Ok
    /\ Tag(msg) = "PrevoteQC" /\ msg.source = "Timer"
    /\ step = "Precommit" /\ lock # None /\ block_hash = lock[1].hash
    /\ Len(sent_state) = 1 /\ sent_state[1].event = "PrecommitVote"
    /\ is_empty(sent_state[1].block_hash)
    /\ sent_state[1].lock_round = Some(lock[1].round)
    /\ sent_timer = sent_state

(* C18: in every reachable state, step Propose and no lock imply that      *)
(* block_hash is empty.                                                    *)
C18_ProposeUnlockedHashEmpty ==
    (step = "Propose" /\ lock = None) => is_empty(block_hash)

(* C19: in every state reached without an enqueue failure (no receiver was *)
(* ever dropped), a step before Precommit and round 0 imply no lock.       *)
C19_NoLockBeforePrecommitInRound0 ==
    ( /\ rx_state /\ rx_timer
      /\ StepOrd(step) < StepOrd("Precommit") /\ round = 0 ) => lock = None


(* C20: over any sequence of triggers, for each pair (height, round) the  *)
(* replica enqueues on one stream (event.0) at most one PrevoteVote and at *)
(* most one PrecommitVote carrying that height and round.                  *)
C20_NoEquivocation ==
    \A i, j \in 1 .. Len(votes) :
        ( /\ i < j
          /\ votes[i].event = votes[j].event
          /\ votes[i].height = votes[j].height ) =>
            votes[i].round # votes[j].round


(* C21: at most one Commit event is emitted per height: after a Commit     *)
(* emitted at height h no further Commit is emitted until a NewHeight with *)
(* a greater height is accepted, so no two Commit events on event.0 were   *)
(* enqueued at the same height.                                            *)
C21_OneCommitPerHeight ==
    \A i, j \in 1 .. Len(commits) :
        i < j => commits[i].height # commits[j].height


(* the replica as the call left it, about to be called again *)
SelfAfter(oc) ==
    [ height |-> height', round |-> round', step |-> step',
      block_hash |-> block_hash', lock |-> lock',
      rx_state |-> rx_state', rx_timer |-> rx_timer',
      sent_state |-> << >>, sent_timer |-> << >>,
      overflow_checks |-> oc ]

(* C22: for every reachable state and every trigger that process() handles *)
(* without an enqueue failure, processing the same trigger again at once   *)
(* leaves height, round, step, block_hash and lock as the first call left  *)
(* them and emits no event.                                                *)
C22_DuplicateTriggerHarmless ==
    [][ (Handled /\ res' \notin { ErrThrowEvent, Panic }) =>
          \A oc \in BOOLEAN :
              LET again == process(SelfAfter(oc), msg')
              IN  /\ again.s.height = height'
                  /\ again.s.round = round'
                  /\ again.s.step = step'
                  /\ again.s.block_hash = block_hash'
                  /\ again.s.lock = lock'
                  /\ again.s.sent_state = << >>
                  /\ again.s.sent_timer = << >> ]_vars

=============================================================================
